---- MODULE Spec2Model ----
(***************************************************************************)
(* Pakistan Law Chatbot (src/app.py): the query router, the article        *)
(* knowledge base and the session history, as a state machine.             *)
(*                                                                         *)
(* A Python string is modelled as a sequence of string fragments whose     *)
(* concatenation is the string.  Text the regular expressions inspect (the *)
(* user's input) is held one character per fragment.                       *)
(***************************************************************************)
EXTENDS Integers, Sequences, FiniteSets, TLC

VARIABLES kbFile, KB, reported, pc, history, user_input, response, outcome,
          ran, delegate_args, calls, returned, completed, submitted,
          text, result, phase

vars == <<kbFile, KB, reported, pc, history, user_input, response, outcome,
          ran, delegate_args, calls, returned, completed, submitted,
          text, result, phase>>

appVars == <<kbFile, KB, reported, pc, history, user_input, response, outcome,
             ran, delegate_args, calls, returned, completed, submitted>>

extractVars == <<text, result, phase>>

(***************************************************************************)
(* Bounds of the model.                                                    *)
(***************************************************************************)
\* Submissions (presses of "Ask") in one session.
MaxQueries == 2
\* Submissions in one session of the article-lookup specification.
MaxLookups == 1
\* Leading zeros put in front of an article number.
MaxPad == 2
\* Tokens concatenated into an input text of the extractor specification.
MaxTokens == 5

(***************************************************************************)
(* Characters: Python's str methods and the re module's classes, on the    *)
(* ASCII characters the model uses.                                        *)
(***************************************************************************)
UPPER == <<"A","B","C","D","E","F","G","H","I","J","K","L","M",
           "N","O","P","Q","R","S","T","U","V","W","X","Y","Z">>

LOWER == <<"a","b","c","d","e","f","g","h","i","j","k","l","m",
           "n","o","p","q","r","s","t","u","v","w","x","y","z">>

DIGITS == <<"0","1","2","3","4","5","6","7","8","9">>

Range(s) == {s[i] : i \in DOMAIN s}

DigitChars == Range(DIGITS)

UpperChars == Range(UPPER)

WordChars == Range(UPPER) \cup Range(LOWER) \cup Range(DIGITS) \cup {"_"}

SpaceChars == {" ", "\t", "\n"}

\* \d
IsDigit(c) == c \in DigitChars

\* \s, and the characters str.strip() removes
IsSpace(c) == c \in SpaceChars

\* \w
IsWordChar(c) == c \in WordChars

\* str.lower() on one character; re.IGNORECASE compares under it
LowerChar(c) ==
  IF c \in UpperChars THEN LOWER[CHOOSE i \in DOMAIN UPPER : UPPER[i] = c] ELSE c

\* str.lower()
Lower(s) == [i \in DOMAIN s |-> LowerChar(s[i])]

\* None, and the empty string: the values `if not num` treats alike
None == <<>>

Min(S) == CHOOSE x \in S : \A y \in S : x <= y

Max(S) == CHOOSE x \in S : \A y \in S : x >= y

\* \b at the gap in front of s[i] (i = Len(s) + 1: at the end of s)
WordBoundary(s, i) ==
  LET before == i > 1 /\ i - 1 <= Len(s) /\ IsWordChar(s[i - 1])
      after  == i >= 1 /\ i <= Len(s) /\ IsWordChar(s[i])
  IN  before # after

\* the literal w matches s at i, ignoring case
LiteralAt(s, i, w) ==
  /\ i >= 1
  /\ i + Len(w) - 1 <= Len(s)
  /\ \A k \in DOMAIN w : LowerChar(s[i + k - 1]) = LowerChar(w[k])

\* int(): the value of a run of decimal digits
RECURSIVE IntOf(_)
IntOf(ds) ==
  IF ds = <<>> THEN 0
  ELSE 10 * IntOf(SubSeq(ds, 1, Len(ds) - 1))
       + (CHOOSE i \in DOMAIN DIGITS : DIGITS[i] = ds[Len(ds)]) - 1

\* str() of a natural number: its decimal digits, no leading zero
RECURSIVE StrOf(_)
StrOf(n) ==
  IF n < 10 THEN <<DIGITS[n + 1]>>
  ELSE Append(StrOf(n \div 10), DIGITS[(n % 10) + 1])

(***************************************************************************)
(* Article Reference Extractor.                                            *)
(***************************************************************************)
ARTICLE == <<"a","r","t","i","c","l","e">>

\* ARTICLE_PATTERN matched with its first character at i:
\* \b article \s+ (\d{1,3}) \b, re.IGNORECASE.  The set holds, for every way
\* the quantifiers can be satisfied, <<w, d>>: w whitespace characters and d
\* digits.
ArticleMatches(s, i) ==
  LET a == i + Len(ARTICLE)
  IN  IF ~(WordBoundary(s, i) /\ LiteralAt(s, i, ARTICLE)) THEN {}
      ELSE { m \in (1..Len(s)) \X (1..3) :
               /\ a + m[1] + m[2] - 1 <= Len(s)
               /\ \A k \in a .. (a + m[1] - 1) : IsSpace(s[k])
               /\ \A k \in (a + m[1]) .. (a + m[1] + m[2] - 1) : IsDigit(s[k])
               /\ WordBoundary(s, a + m[1] + m[2]) }

\* ARTICLE_PATTERN.search(s): group 1 of the leftmost match, the quantifiers
\* greedy (the longest whitespace, then the longest digits); None if no match
ArticlePatternSearch(s) ==
  LET starts == {i \in 1..Len(s) : ArticleMatches(s, i) # {}}
  IN  IF starts = {} THEN None
      ELSE LET i  == Min(starts)
               ms == ArticleMatches(s, i)
               w  == Max({m[1] : m \in ms})
               d  == Max({m[2] : m \in {x \in ms : x[1] = w}})
               g  == i + Len(ARTICLE) + w
           IN  SubSeq(s, g, g + d - 1)

\* re.search(r"\b(\d{1,3})\b", s): group 1 of the leftmost match, or None
OnlyNumSearch(s) ==
  LET lens(i) == {d \in 1..3 :
                    /\ i + d - 1 <= Len(s)
                    /\ \A k \in i .. (i + d - 1) : IsDigit(s[k])
                    /\ WordBoundary(s, i + d)}
      starts  == {i \in 1..Len(s) : WordBoundary(s, i) /\ lens(i) # {}}
  IN  IF starts = {} THEN None
      ELSE LET i == Min(starts) IN SubSeq(s, i, i + Max(lens(i)) - 1)

\* "article" in text.lower()
ArticleInLower(s) == \E i \in 1..Len(s) : LiteralAt(Lower(s), i, ARTICLE)

\* A faulty variant of Normalize: the matched digits are returned as they were typed
NormalizeKeepZeros(ds) == ds

\* str(int(m.group(1)))
Normalize(ds) == StrOf(IntOf(ds))

\* A faulty variant of extract_article_number: the fallback takes a standalone number
\* without asking for "article" in the text
extract_article_number_AnyNumber(s) ==
  LET m == ArticlePatternSearch(s)
  IN  IF m # None THEN Normalize(m)
      ELSE LET only_num == OnlyNumSearch(s)
           IN  IF only_num # None THEN Normalize(only_num) ELSE None

extract_article_number(s) ==
  LET m == ArticlePatternSearch(s)
  IN  IF m # None THEN Normalize(m)
      ELSE LET only_num == OnlyNumSearch(s)
           IN  IF only_num # None /\ ArticleInLower(s)
               THEN Normalize(only_num)
               ELSE None

(***************************************************************************)
(* Knowledge base.  A record is a function from field names to values; a   *)
(* text field is a sequence of fragments; a key is the article number,     *)
(* one character per fragment.  Non-ASCII punctuation of the source's      *)
(* literals is written in ASCII, and the Urdu glosses are left out.        *)
(***************************************************************************)
DEFAULT_KB ==
  (<<"1","7","6">> :>
     [title    |-> <<"Constitution of Supreme Court">>,
      text     |-> <<"The Supreme Court shall consist of a Chief Justice, to be known as the Chief Justice of Pakistan, ",
                     "and so many other Judges as may be determined by Act of Majlis-e-Shoora (Parliament) or, ",
                     "until so determined, as may be fixed by the President.">>,
      summary  |-> <<"Sets the composition of the Supreme Court (CJP + other judges determined by Parliament or temporarily by the President).">>,
      examples |-> << <<"Parliament may increase the number of Supreme Court judges to reduce backlog--permitted under Article 176.">>,
                      <<"Until Parliament fixes a number, the President may set the number of judges.">> >>,
      related  |-> << <<"175">>, <<"177">>, <<"178">> >>])
  @@
  (<<"8","9">> :>
     [title    |-> <<"Power of President to promulgate Ordinances">>,
      text     |-> <<"The President may promulgate an Ordinance when the National Assembly is not in session if satisfied ",
                     "that circumstances exist which render it necessary to take immediate action. Ordinances have the force ",
                     "of law but must be laid before the Assembly and lapse after set durations unless extended or replaced by Act.">>,
      summary  |-> <<"Allows temporary legislation by the President when NA is not in session, subject to duration/laying/approval rules.">>,
      examples |-> << <<"During an urgent fiscal situation while NA is not in session, the President may issue a tax-related Ordinance.">>,
                      <<"On Assembly resumption, the Ordinance must be laid; if disapproved or time lapses, it ceases to operate.">> >>,
      related  |-> << <<"70">>, <<"75">>, <<"127">>, <<"128">> >>])
  @@
  (<<"1","2","8">> :>
     [title    |-> <<"Power of Governor to promulgate Ordinances">>,
      text     |-> <<"The Governor of a Province may promulgate Ordinances when the Provincial Assembly is not in session, ",
                     "subject to conditions similar to those for Presidential Ordinances.">>,
      summary  |-> <<"Provincial analogue of Article 89 for Governors when Provincial Assemblies are not in session.">>,
      examples |-> << <<"A provincial public health emergency may be addressed via a Governor's Ordinance pending Assembly session.">>,
                      <<"If the Provincial Assembly disapproves, the Ordinance ceases.">> >>,
      related  |-> << <<"89">>, <<"130">> >>])
  @@
  (<<"1","7","5">> :>
     [title    |-> <<"Establishment and jurisdiction of courts">>,
      text     |-> <<"There shall be a Supreme Court of Pakistan, a High Court for each Province, and such other courts as may be established by law.">>,
      summary  |-> <<"Establishes the court system and judicial structure in Pakistan.">>,
      examples |-> << <<"Inter-provincial disputes fall within the higher judiciary's constitutional scheme framed by Article 175.">>,
                      <<"Law students use 175 as the starting point for the hierarchy of courts.">> >>,
      related  |-> << <<"176">>, <<"191">> >>])
  @@
  (<<"1","7","7">> :>
     [title    |-> <<"Appointment of Supreme Court Judges">>,
      text     |-> <<"(Appointment provisions for the Chief Justice and other judges of the Supreme Court--see full text for detail).">>,
      summary  |-> <<"Covers appointment of the CJP and other Supreme Court judges.">>,
      examples |-> << <<"New judges of the Supreme Court are appointed under Article 177.">>,
                      <<"Bar associations track appointments through Article 177 procedures.">> >>,
      related  |-> << <<"176">>, <<"178">> >>])

\* The states of constitution.json: absent; present and not parseable as
\* JSON; present, parsed, and not an object (a list: no mapping to merge);
\* present and an object, with its parsed content.
FileAbsent == [kind |-> "absent"]

FileBadJson == [kind |-> "bad_json"]

FileNotObject == [kind |-> "not_object"]

FileObject(data) == [kind |-> "object", data |-> data]

\* {**a, **b}: the keys of both, b's value where both have the key
DictMerge(a, b) ==
  [k \in DOMAIN a \cup DOMAIN b |-> IF k \in DOMAIN b THEN b[k] ELSE a[k]]

\* A faulty variant of load_constitution_json: no except clause around the load
load_constitution_json_NoExcept(file) ==
  IF file.kind = "absent"
  THEN [kb |-> DEFAULT_KB, error |-> FALSE, raised |-> FALSE]
  ELSE IF file.kind = "object"
       THEN [kb |-> DictMerge(DEFAULT_KB, file.data), error |-> FALSE, raised |-> FALSE]
       ELSE [kb |-> <<>>, error |-> FALSE, raised |-> TRUE]

\* load_constitution_json: its return value (kb), whether st.error reported
\* a failure (error), and whether an exception left the function (raised).
\* json.load raises on text that is not JSON, and the merge raises TypeError
\* on a value that is not a mapping; `except Exception` catches both.
load_constitution_json(file) ==
  IF file.kind = "absent"
  THEN [kb |-> DEFAULT_KB, error |-> FALSE, raised |-> FALSE]
  ELSE IF file.kind = "object"
       THEN [kb |-> DictMerge(DEFAULT_KB, file.data), error |-> FALSE, raised |-> FALSE]
       ELSE [kb |-> DEFAULT_KB, error |-> TRUE, raised |-> FALSE]

(***************************************************************************)
(* Article Response Formatter.                                             *)
(***************************************************************************)
\* entry.get(field, default)
Get(entry, f, default) == IF f \in DOMAIN entry THEN entry[f] ELSE default

\* A faulty variant of Strip: nothing is removed
StripNothing(t) == t

\* str.strip(): leading and trailing whitespace fragments removed
RECURSIVE Strip(_)
Strip(t) ==
  IF t = <<>> THEN t
  ELSE IF IsSpace(t[1]) THEN Strip(Tail(t))
  ELSE IF IsSpace(t[Len(t)]) THEN Strip(SubSeq(t, 1, Len(t) - 1))
  ELSE t

\* len() of a string: the characters of its fragments
RECURSIVE StrLen(_)
StrLen(t) == IF t = <<>> THEN 0 ELSE Len(t[1]) + StrLen(Tail(t))

\* sep.join(items)
RECURSIVE Join(_, _)
Join(sep, items) ==
  IF items = <<>> THEN <<>>
  ELSE IF Len(items) = 1 THEN items[1]
  ELSE items[1] \o <<sep>> \o Join(sep, Tail(items))

\* the threshold of `len(text) <= 600`
LongTextLimit == 600

render_article_response(num, entry) ==
  LET title    == Strip(Get(entry, "title", <<>>))
      wording  == Strip(Get(entry, "text", <<>>))
      summary  == Strip(Get(entry, "summary", <<>>))
      examples == Get(entry, "examples", <<>>)
      related  == Get(entry, "related", <<>>)
      head     == << <<"### 1) Correct Article/Law\n**Article ">> \o num \o <<" - ">>
                     \o title \o <<"**">> >>
      sec2     == IF wording = <<>> THEN <<>>
                  ELSE << <<"\n### 2) Authentic Wording or Summary">> >> \o
                       (IF StrLen(wording) <= LongTextLimit
                        THEN << <<"**Authentic Wording:** ">> \o wording >> \o
                             (IF summary # <<>>
                              THEN << <<"\n**Summary:** ">> \o summary >>
                              ELSE <<>>)
                        ELSE (IF summary # <<>>
                              THEN << <<"**Summary:** ">> \o summary >>
                              ELSE <<>>) \o
                             << <<"\n*(Full text is lengthy; refer to the official Gazette text.)*">> >>)
      sec3     == << <<"\n### 3) Simple Explanation">>,
                     IF num = <<"1","7","6">>
                     THEN <<"This Article sets how the Supreme Court is composed: one Chief Justice of Pakistan plus other judges. ",
                            "Parliament decides the number of judges; until it does, the President may fix the number. ">>
                     ELSE IF num = <<"8","9">>
                     THEN <<"This Article empowers the President to issue temporary laws (Ordinances) when the National Assembly is not in session, ",
                            "subject to time limits and laying before the Assembly for approval/disapproval. ">>
                     ELSE IF summary # <<>> THEN summary
                     ELSE <<"This provision applies within Pakistan's constitutional framework. See examples below.">> >>
      sec4     == IF examples = <<>> THEN <<>>
                  ELSE << <<"\n### 4) Practical Example(s) / Scenario(s)">> >> \o
                       [i \in 1..(IF Len(examples) < 2 THEN Len(examples) ELSE 2)
                          |-> <<"- ">> \o examples[i]]
      sec5     == IF related = <<>> THEN <<>>
                  ELSE << <<"\n### 5) Related Provisions">>,
                          Join(", ", [i \in DOMAIN related |-> <<"Article ">> \o related[i]]) >>
  IN  Join("\n", head \o sec2 \o sec3 \o sec4 \o sec5)

\* the polite uncertainty message of handle_article_query, with its hint
MissMessage(num) ==
  LET suggestions ==
        IF num \in {<<"1","7","5">>, <<"1","7","6">>, <<"1","7","7">>, <<"1","7","8">>}
        THEN << <<"176">>, <<"177">>, <<"175">>, <<"178">> >>
        ELSE << <<"89">>, <<"128">>, <<"175">>, <<"176">>, <<"177">> >>
      hint == Join(", ", [i \in DOMAIN suggestions |-> <<"Article ">> \o suggestions[i]])
  IN  <<"I'm not fully certain without checking the official text for that Article number. ",
        "If you can share the subject matter (e.g., 'ordinances', 'composition of Supreme Court'), ",
        "I can match it precisely. Likely relevant: ">> \o hint \o <<".">>

\* the truth value of a record or of None: an empty dict and None are false
Truthy(entry) == DOMAIN entry # {}

\* KB.get(num)
KbGet(kb, num) == IF num \in DOMAIN kb THEN kb[num] ELSE None

\* A faulty variant of handle_article_query: a number the KB lacks is left to the caller
handle_article_query_MissToCaller(kb, input) ==
  LET num == extract_article_number(input)
  IN  IF num = None THEN None
      ELSE IF Truthy(KbGet(kb, num))
           THEN render_article_response(num, KbGet(kb, num))
           ELSE None

\* handle_article_query: None, or the text of the answer.  `if not num`
\* holds of None; `if entry` fails for None and for an empty record.
handle_article_query(kb, input) ==
  LET num == extract_article_number(input)
  IN  IF num = None THEN None
      ELSE LET entry == KbGet(kb, num)
           IN  IF Truthy(entry)
               THEN render_article_response(num, entry)
               ELSE MissMessage(num)

(***************************************************************************)
(* Scope Classifier: the re.search of the routing block, re.IGNORECASE.    *)
(***************************************************************************)
SCOPE_KEYWORDS ==
  { <<"p","a","k","i","s","t","a","n">>,
    <<"p","a","k","i","s","t","a","n","i">>,
    <<"c","o","n","s","t","i","t","u","t","i","o","n">>,
    <<"a","r","t","i","c","l","e">>,
    <<"p","p","c">>,
    <<"c","r","p","c">>,
    <<"f","a","m","i","l","y">>,
    <<"n","i","k","a","h">>,
    <<"k","h","u","l","a">>,
    <<"c","o","u","r","t">>,
    <<"h","i","g","h"," ","c","o","u","r","t">>,
    <<"s","u","p","r","e","m","e"," ","c","o","u","r","t">>,
    <<"o","r","d","i","n","a","n","c","e">>,
    <<"a","c","t">>,
    <<"l","a","w">>,
    <<"b","y","l","a","w","s">>,
    <<"l","a","b","o","u","r">>,
    <<"c","y","b","e","r">>,
    <<"p","t","a">>,
    <<"f","b","r">>,
    <<"n","a","b">>,
    <<"i","p","c">> }

\* re.search(r"\b(k1|k2|...)\b", input, re.IGNORECASE) finds a match
InScope(input) ==
  \E i \in 1..Len(input) : \E k \in SCOPE_KEYWORDS :
     /\ WordBoundary(input, i)
     /\ LiteralAt(input, i, k)
     /\ WordBoundary(input, i + Len(k))

\* A faulty variant of REFUSAL: the sentence reworded
REFUSAL_Reworded == <<"Sorry, I can only answer questions about the laws of Pakistan.">>

REFUSAL == <<"Sorry, I can only provide information related to laws in Pakistan.">>

(***************************************************************************)
(* The inputs of the model.                                                *)
(***************************************************************************)
\* Records constitution.json may hold: a full record, whose wording is longer
\* than the formatter's threshold, and {}.
RECURSIVE Repeat(_, _)
Repeat(frag, n) == IF n = 0 THEN <<>> ELSE <<frag>> \o Repeat(frag, n - 1)

FileRecords ==
  { [title    |-> <<" ", "Title from the file">>,
     text     |-> Repeat("Wording from the file, sixty-one characters for each fragment", 10),
     summary  |-> <<"Summary from the file">>,
     examples |-> << <<"First">>, <<"Second">>, <<"Third">> >>,
     related  |-> << <<"89">> >>],
    <<>> }

\* Keys constitution.json may hold: one of the defaults, a new number, and a
\* number written with a leading zero.
FileKeys == { <<"8","9">>, <<"5">>, <<"0","8","9">> }

FileData == UNION { [ks -> FileRecords] : ks \in SUBSET FileKeys }

FileStates == {FileAbsent, FileBadJson, FileNotObject} \cup {FileObject(d) : d \in FileData}

\* What the delegate may return
DelegateReplies == { <<"Khula is a wife's right to seek dissolution of marriage.">>,
                     <<"1. Correct Article/Law ...">> }

QEmpty == <<>>

QBlank == <<" "," ">>

QArticle89 == <<"A","r","t","i","c","l","e"," ","8","9">>

QPadded89 == <<"a","r","t","i","c","l","e"," ","0","8","9">>

QArticle5 == <<"A","r","t","i","c","l","e"," ","5">>

QArticle178 == <<"A","r","t","i","c","l","e"," ","1","7","8">>

QKhula == <<"W","h","a","t"," ","i","s"," ","k","h","u","l","a","?">>

QWeather == <<"w","e","a","t","h","e","r"," ","t","o","d","a","y">>

QBylaw == <<"a"," ","b","y","l","a","w">>

QParticle == <<"p","a","r","t","i","c","l","e"," ","8","9">>

Queries == { QEmpty, QBlank, QArticle89, QPadded89, QArticle5, QArticle178, QKhula, QWeather, QBylaw, QParticle }

\* "Article N" in the letter cases and zero paddings of the lookup specification
ArticleWords == { <<"A","r","t","i","c","l","e">>, <<"a","r","t","i","c","l","e">>,
                  <<"A","R","T","I","C","L","E">> }

LookupNumbers == { <<"8","9">>, <<"1","7","6">>, <<"5">> }

ArticleQuery(word, pad, num) == word \o <<" ">> \o [i \in 1..pad |-> "0"] \o num

ArticleQueries ==
  { ArticleQuery(w, p, n) : w \in ArticleWords, p \in 0..MaxPad, n \in LookupNumbers }

\* The texts of the extractor specification: up to MaxTokens tokens, joined
TextTokens == { <<"A","r","t","i","c","l","e">>, <<" ">>, <<"0">>, <<"1","2">>, <<"x">>, <<"-">> }

RECURSIVE Concat(_)
Concat(ts) == IF ts = <<>> THEN <<>> ELSE ts[1] \o Concat(Tail(ts))

Texts == { Concat(ts) : ts \in UNION { [1..n -> TextTokens] : n \in 0..MaxTokens } }

(***************************************************************************)
(* The session: the script's first run, then one run per press of "Ask".   *)
(***************************************************************************)
HumanMessage(content) == [role |-> "user", content |-> content]

AIMessage(content) == [role |-> "assistant", content |-> content]

NoCall == [chat_history |-> <<>>, human_input |-> <<>>]

Init ==
  /\ kbFile \in FileStates
  /\ KB = <<>>
  /\ reported = FALSE
  /\ pc = "start"
  /\ history = <<>>
  /\ user_input = <<>>
  /\ response = <<>>
  /\ outcome = "none"
  /\ ran = {}
  /\ delegate_args = NoCall
  /\ calls = 0
  /\ returned = <<>>
  /\ completed = <<>>
  /\ submitted = 0
  /\ text = <<>>
  /\ result = None
  /\ phase = "off"

\* The first run: st.session_state.history = [] and KB = load_constitution_json()
\* An exception that leaves load_constitution_json ends the script at line 129.
Startup ==
  /\ pc = "start"
  /\ history' = <<>>
  /\ LET loaded == load_constitution_json(kbFile)
     IN  IF loaded.raised
         THEN /\ pc' = "crashed"
              /\ UNCHANGED <<KB, reported>>
         ELSE /\ KB' = loaded.kb
              /\ reported' = loaded.error
              /\ pc' = "idle"
  /\ UNCHANGED <<kbFile, user_input, response, outcome, ran, delegate_args,
                 calls, returned, completed, submitted, text, result, phase>>

\* A faulty variant of get_history: the default is returned
get_history_Default(h) == <<>>

\* get_history: st.session_state.get("history", [])
get_history(h) == h

\* StrOutputParser: the text of the model's message
output_parser(message) == message.content

\* A faulty variant of SaveHistory: the response is appended before the query
SaveHistoryResponseFirst(h, query, answer) == h \o <<AIMessage(answer), HumanMessage(query)>>

\* The two appends that save a query and its response
SaveHistory(h, query, answer) == h \o <<HumanMessage(query), AIMessage(answer)>>

\* A run with "Ask" pressed and user_input = input, up to its end or to the
\* call of chain.invoke
Ask(input) ==
  /\ pc = "idle"
  /\ user_input' = input
  /\ submitted' = submitted + 1
  /\ IF ~(input # <<>> /\ Strip(input) # <<>>)
     THEN \* st.warning("Please enter a question.")
          /\ outcome' = "warning"
          /\ ran' = {}
          /\ response' = <<>>
          /\ calls' = 0
          /\ UNCHANGED <<pc, history, delegate_args, completed>>
     ELSE LET kb_answer == handle_article_query(KB, input)
          IN  IF kb_answer # None
              THEN /\ response' = kb_answer
                   /\ history' = SaveHistory(history, input, kb_answer)
                   /\ completed' = Append(completed, [query |-> input, response |-> kb_answer, branch |-> "kb"])
                   /\ outcome' = "answer"
                   /\ ran' = {"extract", "kb"}
                   /\ calls' = 0
                   /\ UNCHANGED <<pc, delegate_args>>
              ELSE IF ~InScope(input)
              THEN /\ response' = REFUSAL
                   /\ history' = SaveHistory(history, input, REFUSAL)
                   /\ completed' = Append(completed, [query |-> input, response |-> REFUSAL, branch |-> "refusal"])
                   /\ outcome' = "answer"
                   /\ ran' = {"extract", "scope"}
                   /\ calls' = 0
                   /\ UNCHANGED <<pc, delegate_args>>
              ELSE \* chain.invoke: get_history reads the session's history
                   /\ pc' = "delegate"
                   /\ delegate_args' = [chat_history |-> get_history(history), human_input |-> input]
                   /\ calls' = 1
                   /\ outcome' = "pending"
                   /\ ran' = {"extract", "scope", "delegate"}
                   /\ response' = <<>>
                   /\ UNCHANGED <<history, completed>>
  /\ UNCHANGED <<kbFile, KB, reported, returned, text, result, phase>>

\* The model answers with the text reply: chain.invoke returns it, and it is
\* displayed and saved
DelegateReturn(reply) ==
  /\ pc = "delegate"
  /\ returned' = reply
  /\ LET answer == output_parser(AIMessage(reply))
     IN  /\ response' = answer
         /\ history' = SaveHistory(history, user_input, answer)
         /\ completed' = Append(completed, [query |-> user_input, response |-> answer, branch |-> "delegate"])
  /\ outcome' = "answer"
  /\ pc' = "idle"
  /\ UNCHANGED <<kbFile, KB, reported, user_input, ran, delegate_args, calls,
                 submitted, text, result, phase>>

\* A faulty variant of DelegateFail: the query was saved before chain.invoke was called
DelegateFailQuerySaved ==
  /\ pc = "delegate"
  /\ outcome' = "error"
  /\ pc' = "idle"
  /\ history' = Append(history, HumanMessage(user_input))
  /\ UNCHANGED <<kbFile, KB, reported, user_input, response, ran,
                 delegate_args, calls, returned, completed, submitted,
                 text, result, phase>>

\* chain.invoke raises: the run ends at line 332, nothing after it executes
DelegateFail ==
  /\ pc = "delegate"
  /\ outcome' = "error"
  /\ pc' = "idle"
  /\ UNCHANGED <<kbFile, KB, reported, history, user_input, response, ran,
                 delegate_args, calls, returned, completed, submitted,
                 text, result, phase>>

Submit == \E q \in Queries : submitted < MaxQueries /\ Ask(q)

Reply == \E r \in DelegateReplies : DelegateReturn(r)

Next == Startup \/ Submit \/ Reply \/ DelegateFail

Spec == Init /\ [][Next]_vars

\* Sessions of "Article N" queries
Lookup == \E q \in ArticleQueries : submitted < MaxLookups /\ Ask(q)

NextLookup == Startup \/ Lookup \/ Reply \/ DelegateFail

SpecLookup == Init /\ [][NextLookup]_vars

\* The extractor alone, on every text
InitExtract ==
  /\ kbFile = FileAbsent
  /\ KB = <<>>
  /\ reported = FALSE
  /\ pc = "start"
  /\ history = <<>>
  /\ user_input = <<>>
  /\ response = <<>>
  /\ outcome = "none"
  /\ ran = {}
  /\ delegate_args = NoCall
  /\ calls = 0
  /\ returned = <<>>
  /\ completed = <<>>
  /\ submitted = 0
  /\ text \in Texts
  /\ result = None
  /\ phase = "input"

Extract ==
  /\ phase = "input"
  /\ result' = extract_article_number(text)
  /\ phase' = "done"
  /\ UNCHANGED <<appVars, text>>

SpecExtract == InitExtract /\ [][Extract]_vars

(***************************************************************************)
(* Properties.                                                             *)
(***************************************************************************)
\* q is empty or holds whitespace alone
IsBlank(q) == \A i \in DOMAIN q : q[i] \in {" ", "\t", "\n"}

\* the history that a log of completed queries amounts to
PairsOf(log) ==
  [i \in 1..(2 * Len(log)) |->
     IF i % 2 = 1 THEN [role |-> "user", content |-> log[(i + 1) \div 2].query]
     ELSE [role |-> "assistant", content |-> log[i \div 2].response]]

\* h holds complete (user, assistant) pairs alone
Paired(h) ==
  /\ Len(h) % 2 = 0
  /\ \A i \in DOMAIN h : h[i].role = IF i % 2 = 1 THEN "user" ELSE "assistant"

\* sub occurs in t as a run of consecutive fragments
Contains(t, sub) ==
  \E i \in 1..(Len(t) - Len(sub) + 1) : SubSeq(t, i, i + Len(sub) - 1) = sub

\* the last submission was a routed query q (not blank)
Routed == submitted > 0 /\ pc # "start" /\ ~IsBlank(user_input)

\* C1: after n completed queries the history is, in order, the n pairs
\* (user, k-th query), (assistant, k-th response), whichever branch answered;
\* a step changes the history only by appending one such pair.
C1_HistoryIsCompletedPairs ==
  /\ [](history = PairsOf(completed))
  /\ [][\/ history' = history
        \/ /\ Len(history') = Len(history) + 2
           /\ SubSeq(history', 1, Len(history)) = history]_vars

C1_Witness ==
  /\ Len(history) = 4
  /\ completed[1].branch = "delegate"
  /\ completed[2].branch = "kb"

\* C2: a query from which the extractor yields a number is answered by the KB
\* lookup (the formatted record, or the miss-message), without the scope
\* classifier and without the delegate; a number absent from the KB gets the
\* miss-message.
C2_ArticleShortCircuits ==
  LET num == extract_article_number(user_input)
  IN  (Routed /\ num # None) =>
        /\ pc = "idle"
        /\ outcome = "answer"
        /\ ran = {"extract", "kb"}
        /\ calls = 0
        /\ \/ response = MissMessage(num)
           \/ num \in DOMAIN KB /\ response = render_article_response(num, KB[num])
        /\ num \notin DOMAIN KB => response = MissMessage(num)
        /\ history[Len(history)] = [role |-> "assistant", content |-> response]

C2_Witness ==
  /\ Routed
  /\ extract_article_number(user_input) = <<"1","7","8">>
  /\ <<"1","7","8">> \notin DOMAIN KB
  /\ outcome = "answer"
  /\ response = MissMessage(<<"1","7","8">>)
  /\ Contains(response, <<"Article ", "176", ", ", "Article ", "177">>)

\* C3: a query with no article reference and a scope keyword invokes the
\* delegate once, with the history of the queries completed before it and the
\* query itself; what the delegate returns is the response.
C3_DelegateOnceWithPriorHistory ==
  (Routed /\ extract_article_number(user_input) = None /\ InScope(user_input)) =>
    LET prior == IF outcome = "answer"
                 THEN SubSeq(completed, 1, Len(completed) - 1)
                 ELSE completed
    IN  /\ calls = 1
        /\ "delegate" \in ran
        /\ "kb" \notin ran
        /\ outcome \in {"pending", "answer", "error"}
        /\ delegate_args = [chat_history |-> PairsOf(prior), human_input |-> user_input]
        /\ outcome = "answer" =>
             /\ response = returned
             /\ completed[Len(completed)] =
                  [query |-> user_input, response |-> returned, branch |-> "delegate"]

C3_Witness ==
  /\ Routed
  /\ outcome = "answer"
  /\ "delegate" \in ran
  /\ Len(delegate_args.chat_history) = 2
  /\ response = returned
  /\ Len(history) = 4

\* C4: a query with no article reference and no scope keyword gets the fixed
\* refusal string, and the delegate is not invoked.
C4_OutOfScopeRefused ==
  (Routed /\ extract_article_number(user_input) = None /\ ~InScope(user_input)) =>
    /\ pc = "idle"
    /\ outcome = "answer"
    /\ response = <<"Sorry, I can only provide information related to laws in Pakistan.">>
    /\ calls = 0
    /\ "delegate" \notin ran

C4_Witness ==
  /\ Routed
  /\ user_input = QBylaw
  /\ outcome = "answer"
  /\ ran = {"extract", "scope"}
  /\ Len(history) = 4

\* the queries "Article N" that user_input is: <<word, pad, N>>
LookupForms ==
  { f \in ArticleWords \X (0..MaxPad) \X LookupNumbers :
      user_input = ArticleQuery(f[1], f[2], f[3]) }

C6_BlankRejected ==
  [][(submitted' = submitted + 1 /\ IsBlank(user_input')) =>
       /\ outcome' = "warning"
       /\ ran' = {}
       /\ calls' = 0
       /\ pc' = "idle"
       /\ history' = history
       /\ completed' = completed
       /\ delegate_args' = delegate_args]_vars

C6_Witness ==
  /\ outcome = "warning"
  /\ user_input = QBlank
  /\ ran = {}
  /\ Len(history) = 2

\* C7 as stated: once the KB is built, every key is in canonical integer-text
\* form: digits, with no leading zero.
C7_KeysCanonical ==
  pc # "start" =>
    \A k \in DOMAIN KB :
      /\ k # <<>>
      /\ \A i \in DOMAIN k : IsDigit(k[i])
      /\ Len(k) > 1 => k[1] # "0"

\* C8: building the KB does not fail; without a file the KB is the defaults;
\* with a well-formed file it is the defaults overlaid by the file's entries;
\* with a malformed file the failure is reported, the KB is the defaults, and
\* queries are routed and answered from the defaults.
C8_BuildNeverFails ==
  /\ pc \in {"start", "idle", "delegate"}
  /\ pc # "start" =>
       /\ kbFile.kind = "absent" => KB = DEFAULT_KB /\ ~reported
       /\ kbFile.kind = "object" =>
            /\ ~reported
            /\ DOMAIN KB = DOMAIN DEFAULT_KB \cup DOMAIN kbFile.data
            /\ \A k \in DOMAIN kbFile.data : KB[k] = kbFile.data[k]
            /\ \A k \in DOMAIN DEFAULT_KB \ DOMAIN kbFile.data : KB[k] = DEFAULT_KB[k]
       /\ kbFile.kind \in {"bad_json", "not_object"} =>
            /\ reported
            /\ KB = DEFAULT_KB
            /\ Routed =>
                 /\ outcome \in {"answer", "pending"} \/ "delegate" \in ran
                 /\ LET num == extract_article_number(user_input)
                    IN  num \in DOMAIN DEFAULT_KB =>
                          response = render_article_response(num, DEFAULT_KB[num])

C8_Witness ==
  /\ kbFile.kind = "bad_json"
  /\ reported
  /\ user_input = QPadded89
  /\ outcome = "answer"
  /\ Contains(response, <<"Power of President to promulgate Ordinances">>)

\* the first position of s at which P holds, 0 if there is none
FirstWhere(s, P(_)) ==
  IF \E i \in 1..Len(s) : P(i) THEN CHOOSE i \in 1..Len(s) : P(i) /\ \A j \in 1..(i - 1) : ~P(j)
  ELSE 0

\* digits without their leading zeros (one digit is kept)
RECURSIVE StripZeros(_)
StripZeros(ds) == IF Len(ds) > 1 /\ ds[1] = "0" THEN StripZeros(Tail(ds)) ELSE ds

\* the run of digits of s that starts at i
RECURSIVE DigitRun(_, _)
DigitRun(s, i) ==
  IF i <= Len(s) /\ s[i] \in DigitChars THEN <<s[i]>> \o DigitRun(s, i + 1) ELSE <<>>

C10_NoPartialHistory ==
  /\ [](/\ Paired(history)
        /\ Paired(delegate_args.chat_history)
        /\ pc = "delegate" => delegate_args.chat_history = history)
  /\ [][/\ history' # history =>
             /\ outcome' = "answer"
             /\ history' = history \o << [role |-> "user", content |-> user_input'],
                                         [role |-> "assistant", content |-> response'] >>
        /\ (pc = "delegate" /\ outcome' = "error") => history' = history]_vars

C10_Witness ==
  /\ outcome = "error"
  /\ pc = "idle"
  /\ Len(history) = 2
  /\ history[1].content # user_input

====
